---- MODULE Spec2Model ----
(***************************************************************************)
(* Tic-tac-toe CLI (src/src/tictactoe/main.py): the immutable Board value  *)
(* with its rules queries, and the TicTacToe.play() game loop.             *)
(*                                                                         *)
(* The Board is exercised by three clients, chosen in the initial state:   *)
(*   "calls"  - a caller that holds a Board and invokes its methods in any *)
(*              order with any argument,                                   *)
(*   "script" - a caller that applies a fixed list of moves with with_move,*)
(*   "play"   - TicTacToe.play(), reading lines from input().              *)
(* SpecQuery starts from every pair of disjoint move sets instead of the   *)
(* empty board and calls the pure queries only.                            *)
(***************************************************************************)
EXTENDS Integers, Sequences, FiniteSets, TLC

VARIABLES
    driver,   \* which client of Board runs: "calls", "script" or "play"
    board,    \* the Board the client holds (self.board in TicTacToe)
    moves,    \* TicTacToe.moves
    applied,  \* number of with_move calls that returned a Board (history)
    last,     \* "calls", "script": the last Board method call and its outcome
    script,   \* "script": the list of moves to apply
    pos,      \* "script": how many moves of the list were attempted
    pc,       \* "play": position in play()
    raw,      \* "play": choose_next_move's local raw, until it is parsed
    move,     \* "play": play()'s local move
    out,      \* "play": what the last print() call wrote
    result,   \* "play": the value play() returned
    hints     \* "play": number of boards written with index hints (history)

vars == <<driver, board, moves, applied, last, script, pos, pc, raw, move, out, result, hints>>

----------------------------------------------------------------------------
(* Bounds of the model *)

\* with_move arguments range over -OutOfRange .. 8 + OutOfRange
OutOfRange == 1
\* scripts are the named scenarios and every list of at most MaxScript moves
MaxScript == 2
\* input lines are the decimal texts of the arguments above and every line
\* of at most MaxLine characters over LineChars
MaxLine == 2

----------------------------------------------------------------------------
(* Module-level constants of main.py *)

BOARD_SIZE == 3

\* Python's None
None == "None"

\* choose_next_move's local raw while it holds no line: no str, which is a
\* sequence of characters
NoLine == <<None>>

\* play()'s local move while it holds no move: no cell index
NoMove == 0 - 1

\* range(start, stop, step) for step > 0, as a tuple
RECURSIVE Range(_, _, _)
Range(start, stop, step) ==
    IF start >= stop THEN <<>>
    ELSE <<start>> \o Range(start + step, stop, step)

\* a variant that appends the row a second time in place of the column
RECURSIVE RowColWinsRowsTwice(_)
RowColWinsRowsTwice(i) ==
    IF i >= BOARD_SIZE THEN <<>>
    ELSE << Range(i * BOARD_SIZE, (i + 1) * BOARD_SIZE, 1),
            Range(i * BOARD_SIZE, (i + 1) * BOARD_SIZE, 1) >>
         \o RowColWinsRowsTwice(i + 1)

\* the two tuples appended in iteration i of the loop, then the loop itself
RECURSIVE RowColWins(_)
RowColWins(i) ==
    IF i >= BOARD_SIZE THEN <<>>
    ELSE << Range(i * BOARD_SIZE, (i + 1) * BOARD_SIZE, 1),
            Range(i, BOARD_SIZE * BOARD_SIZE, BOARD_SIZE) >>
         \o RowColWins(i + 1)

\* a variant that starts the anti-diagonal one cell late
DiagonalWinsLateStart ==
    << Range(0, BOARD_SIZE * BOARD_SIZE, BOARD_SIZE + 1),
       Range(BOARD_SIZE, BOARD_SIZE * BOARD_SIZE - 1, BOARD_SIZE - 1) >>

\* the two diagonals appended after the loop
DiagonalWins ==
    << Range(0, BOARD_SIZE * BOARD_SIZE, BOARD_SIZE + 1),
       Range(BOARD_SIZE - 1, BOARD_SIZE * BOARD_SIZE - 1, BOARD_SIZE - 1) >>

generate_win_conditions == RowColWins(0) \o DiagonalWins

WIN_CONDITIONS == generate_win_conditions

----------------------------------------------------------------------------
(* class Board *)

\* Board(moves_x, moves_o, x_turn); Board() is the empty board, X to move
Board(mx, mo, xt) == [moves_x |-> mx, moves_o |-> mo, x_turn |-> xt]

EmptyBoard == Board({}, {}, TRUE)

\* __len__
BoardLen(b) == BOARD_SIZE * BOARD_SIZE

\* list(self): the nine cells in row-major order, indexed from 0
Cells(b) ==
    [idx \in 0 .. (BOARD_SIZE * BOARD_SIZE - 1) |->
        IF idx \in b.moves_x THEN "X"
        ELSE IF idx \in b.moves_o THEN "O"
        ELSE " "]

current_player(b) == IF b.x_turn THEN "X" ELSE "O"

\* a variant that forgets the second player's cells
legal_moves_ignoring_o(b) ==
    {i \in 0 .. (BoardLen(b) - 1) : i \notin b.moves_x}

legal_moves(b) ==
    {i \in 0 .. (BoardLen(b) - 1) : i \notin (b.moves_x \cup b.moves_o)}

\* does the win condition w hold in the list cells
LineWon(cells, w) ==
    /\ cells[w[1]] = cells[w[2]]
    /\ cells[w[2]] = cells[w[3]]
    /\ cells[w[3]] # " "

\* the for loop of winner(): the first win condition from index k on decides
RECURSIVE WinnerFrom(_, _)
WinnerFrom(cells, k) ==
    IF k > Len(WIN_CONDITIONS) THEN None
    ELSE IF LineWon(cells, WIN_CONDITIONS[k]) THEN cells[WIN_CONDITIONS[k][1]]
    ELSE WinnerFrom(cells, k + 1)

winner(b) == WinnerFrom(Cells(b), 1)

\* a variant that forgets to look for a winner
is_active_moves_only(b) == legal_moves(b) # {}

\* a variant that forgets to look at the remaining cells
is_active_winner_only(b) == winner(b) = None

is_active(b) == winner(b) = None /\ legal_moves(b) # {}

\* a variant that leaves the turn with the player who moved
with_move_no_flip(b, m) ==
    IF m \notin legal_moves(b)
    THEN [raised |-> TRUE, board |-> b]
    ELSE IF b.x_turn
    THEN [raised |-> FALSE, board |-> Board(b.moves_x \cup {m}, b.moves_o, TRUE)]
    ELSE [raised |-> FALSE, board |-> Board(b.moves_x, b.moves_o \cup {m}, FALSE)]

\* a variant that checks the range of the move only
with_move_range_only(b, m) ==
    IF m \notin 0 .. (BoardLen(b) - 1)
    THEN [raised |-> TRUE, board |-> b]
    ELSE IF b.x_turn
    THEN [raised |-> FALSE, board |-> Board(b.moves_x \cup {m}, b.moves_o, FALSE)]
    ELSE [raised |-> FALSE, board |-> Board(b.moves_x, b.moves_o \cup {m}, TRUE)]

\* with_move either raises ValueError (self is frozen and stays as it is) or
\* returns a new Board
with_move(b, m) ==
    IF m \notin legal_moves(b)
    THEN [raised |-> TRUE, board |-> b]
    ELSE IF b.x_turn
    THEN [raised |-> FALSE, board |-> Board(b.moves_x \cup {m}, b.moves_o, FALSE)]
    ELSE [raised |-> FALSE, board |-> Board(b.moves_x, b.moves_o \cup {m}, TRUE)]

----------------------------------------------------------------------------
(* Text: a str is a sequence of one-character strings *)

Digits == <<"0", "1", "2", "3", "4", "5", "6", "7", "8", "9">>

IsDigit(c) == \E d \in 1 .. Len(Digits) : Digits[d] = c

DigitValue(c) == (CHOOSE d \in 1 .. Len(Digits) : Digits[d] = c) - 1

\* str(n) for an int n
RECURSIVE StrNat(_)
StrNat(n) ==
    IF n < Len(Digits) THEN <<Digits[n + 1]>>
    ELSE StrNat(n \div Len(Digits)) \o <<Digits[(n % Len(Digits)) + 1]>>

Str(n) == IF n < 0 THEN <<"-">> \o StrNat(0 - n) ELSE StrNat(n)

\* str.strip() of blanks, as int() does before it parses
RECURSIVE LStrip(_)
LStrip(s) == IF s # <<>> /\ Head(s) = " " THEN LStrip(Tail(s)) ELSE s

RECURSIVE RStrip(_)
RStrip(s) ==
    IF s # <<>> /\ s[Len(s)] = " " THEN RStrip(SubSeq(s, 1, Len(s) - 1)) ELSE s

RECURSIVE DigitsValue(_)
DigitsValue(s) ==
    IF s = <<>> THEN 0
    ELSE DigitsValue(SubSeq(s, 1, Len(s) - 1)) * Len(Digits) + DigitValue(s[Len(s)])

\* a variant of int() that skips the characters it cannot read
RECURSIVE OnlyDigits(_)
OnlyDigits(s) ==
    IF s = <<>> THEN <<>>
    ELSE IF IsDigit(Head(s)) THEN <<Head(s)>> \o OnlyDigits(Tail(s))
    ELSE OnlyDigits(Tail(s))

ParseIntLenient(s) ==
    IF OnlyDigits(s) = <<>> THEN [raised |-> TRUE, value |-> 0]
    ELSE [raised |-> FALSE, value |-> DigitsValue(OnlyDigits(s))]

\* int(raw): blanks around the number are dropped, one sign is allowed, and
\* what remains must be a non-empty run of digits; ValueError otherwise
ParseInt(s) ==
    LET t == RStrip(LStrip(s))
        signed == t # <<>> /\ Head(t) \in {"+", "-"}
        body == IF signed THEN Tail(t) ELSE t
    IN  IF body = <<>> \/ \E i \in 1 .. Len(body) : ~IsDigit(body[i])
        THEN [raised |-> TRUE, value |-> 0]
        ELSE [raised |-> FALSE,
              value |-> IF signed /\ Head(t) = "-" THEN 0 - DigitsValue(body)
                        ELSE DigitsValue(body)]

\* sep.join(parts) for a sequence of strs: the parts from the k-th on
RECURSIVE JoinFrom(_, _, _)
JoinFrom(sep, parts, k) ==
    IF k > Len(parts) THEN <<>>
    ELSE IF k = Len(parts) THEN parts[k]
    ELSE parts[k] \o sep \o JoinFrom(sep, parts, k + 1)

\* (parts is bound to its value once, by the function's domain)
Join(sep, parts) == [p \in {parts} |-> JoinFrom(sep, p, 1)][parts]

\* "-" * n
RECURSIVE Dashes(_)
Dashes(n) == IF n <= 0 THEN <<>> ELSE <<"-">> \o Dashes(n - 1)

ROW_SEPARATOR == <<"\n">> \o Dashes(2 * BOARD_SIZE - 1) \o <<"\n">>

----------------------------------------------------------------------------
(* class TicTacToe *)

\* render(show_idx): the cells, each a str, joined into rows and the rows
\* joined by ROW_SEPARATOR
render(b, show_idx) ==
    LET plain == Cells(b)
        cells == [i \in DOMAIN plain |->
                    IF show_idx /\ plain[i] = " " THEN Str(i) ELSE <<plain[i]>>]
        row(r) == Join(<<"|">>,
                       [k \in 1 .. BOARD_SIZE |-> cells[r * BOARD_SIZE + k - 1]])
    IN  Join(ROW_SEPARATOR, [r \in 1 .. BOARD_SIZE |-> row(r - 1)])

\* the rendered board shows a cell index
HasHints(text) == \E t \in {text} : \E i \in 1 .. Len(t) : IsDigit(t[i])

\* sorted(s) for a set of ints, a list: the k-th element has k - 1 smaller ones
Sorted(s) ==
    [t \in {s} |->
        <<>> \o [k \in 1 .. Cardinality(t) |->
                    CHOOSE x \in t : Cardinality({y \in t : y < x}) = k - 1]][s]

\* the prompt input() writes
Prompt(b) == <<current_player(b), "move", Sorted(legal_moves(b))>>

InvalidNotice == "Invalid move, try again."

----------------------------------------------------------------------------
(* Inputs *)

\* the arguments with_move is called with
MoveArgs == (0 - OutOfRange) .. (BOARD_SIZE * BOARD_SIZE - 1 + OutOfRange)

\* every sequence over S of length at most n
SeqsUpTo(S, n) == UNION {[1 .. k -> S] : k \in 0 .. n}

\* X takes the middle column
ColumnScenario == <<4, 0, 1, 3, 7>>

\* nine moves that fill the board
FillScenario == <<0, 1, 2, 3, 4, 5, 6, 8, 7>>

Scripts == {ColumnScenario, FillScenario} \cup SeqsUpTo(MoveArgs, MaxScript)

\* the characters of the free-form input lines: a digit, the signs, a blank
\* and a letter
LineChars == {"4", "+", "-", " ", "x"}

\* the lines input() returns
Lines == {Str(n) : n \in MoveArgs} \cup SeqsUpTo(LineChars, MaxLine)

\* the cell indices of the 3x3 board
CellIndices == 0 .. (BOARD_SIZE * BOARD_SIZE - 1)

----------------------------------------------------------------------------
(* Initial states *)

NoCall == [op |-> "none", arg |-> None, raised |-> FALSE, ret |-> None]

\* Board() and TicTacToe.__init__
Start ==
    /\ board = EmptyBoard
    /\ moves = 0
    /\ applied = 0
    /\ last = NoCall
    /\ pos = 0
    /\ raw = NoLine
    /\ move = NoMove
    /\ out = <<>>
    /\ result = None
    /\ hints = 0

Init ==
    /\ Start
    /\ driver \in {"calls", "script", "play"}
    /\ script \in (IF driver = "script" THEN Scripts ELSE {<<>>})
    /\ pc = IF driver = "play" THEN "loop" ELSE "idle"

\* the pure queries are called on every Board whose move sets are disjoint
InitQuery ==
    /\ driver = "calls"
    /\ \E mx \in SUBSET CellIndices :
         \E mo \in SUBSET (CellIndices \ mx) :
            \E xt \in BOOLEAN : board = Board(mx, mo, xt)
    /\ moves = 0
    /\ applied = 0
    /\ last = NoCall
    /\ script = <<>>
    /\ pos = 0
    /\ pc = "idle"
    /\ raw = NoLine
    /\ move = NoMove
    /\ out = <<>>
    /\ result = None
    /\ hints = 0

----------------------------------------------------------------------------
(* "calls": a caller invoking the methods of the Board it holds *)

\* board = board.with_move(m), the ValueError caught by the caller
CallWithMove(m) ==
    /\ driver = "calls"
    /\ LET r == with_move(board, m)
       IN  /\ board' = r.board
           /\ applied' = IF r.raised THEN applied ELSE applied + 1
           /\ last' = [op |-> "with_move", arg |-> m, raised |-> r.raised, ret |-> None]
    /\ UNCHANGED <<driver, moves, script, pos, pc, raw, move, out, result, hints>>

CallLegalMoves ==
    /\ driver = "calls"
    /\ last' = [op |-> "legal_moves", arg |-> None, raised |-> FALSE,
                ret |-> legal_moves(board)]
    /\ UNCHANGED <<driver, board, moves, applied, script, pos, pc, raw, move, out, result, hints>>

CallWinner ==
    /\ driver = "calls"
    /\ last' = [op |-> "winner", arg |-> None, raised |-> FALSE, ret |-> winner(board)]
    /\ UNCHANGED <<driver, board, moves, applied, script, pos, pc, raw, move, out, result, hints>>

CallIsActive ==
    /\ driver = "calls"
    /\ last' = [op |-> "is_active", arg |-> None, raised |-> FALSE,
                ret |-> is_active(board)]
    /\ UNCHANGED <<driver, board, moves, applied, script, pos, pc, raw, move, out, result, hints>>

----------------------------------------------------------------------------
(* "script": a caller applying the moves of a list in order *)

ScriptStep ==
    /\ driver = "script"
    /\ pos < Len(script)
    /\ LET r == with_move(board, script[pos + 1])
       IN  /\ board' = r.board
           /\ applied' = IF r.raised THEN applied ELSE applied + 1
           /\ last' = [op |-> "with_move", arg |-> script[pos + 1],
                       raised |-> r.raised, ret |-> None]
    /\ pos' = pos + 1
    /\ UNCHANGED <<driver, moves, script, pc, raw, move, out, result, hints>>

----------------------------------------------------------------------------
(* "play": TicTacToe.play() *)

\* while self.board.is_active():
PlayLoopTest ==
    /\ driver = "play"
    /\ pc = "loop"
    /\ pc' = IF is_active(board) THEN "render" ELSE "final"
    /\ UNCHANGED <<driver, board, moves, applied, last, script, pos, raw, move, out, result, hints>>

\* a variant that shows the index hints on every turn
PlayRenderAlwaysHints ==
    /\ driver = "play"
    /\ pc = "render"
    /\ \E text \in {render(board, TRUE)} :
         /\ out' = <<text, <<"\n">> >>
         /\ hints' = IF HasHints(text) THEN hints + 1 ELSE hints
    /\ pc' = "input"
    /\ UNCHANGED <<driver, board, moves, applied, last, script, pos, raw, move, result>>

\* print(self.render(show_idx=self.moves == 0)); print("\n")
PlayRender ==
    /\ driver = "play"
    /\ pc = "render"
    /\ \E text \in {render(board, moves = 0)} :
         /\ out' = <<text, <<"\n">> >>
         /\ hints' = IF HasHints(text) THEN hints + 1 ELSE hints
    /\ pc' = "input"
    /\ UNCHANGED <<driver, board, moves, applied, last, script, pos, raw, move, result>>

\* choose_next_move: raw = input(prompt) writes the prompt and returns a line
ReadLine(line) ==
    /\ driver = "play"
    /\ pc = "input"
    /\ raw' = line
    /\ out' = <<Prompt(board)>>
    /\ pc' = "parse"
    /\ UNCHANGED <<driver, board, moves, applied, last, script, pos, move, result, hints>>

\* a variant that returns every integer it reads
ChooseNextMoveUnchecked ==
    /\ driver = "play"
    /\ pc = "parse"
    /\ LET parsed == ParseInt(raw)
       IN  IF ~parsed.raised
           THEN /\ move' = parsed.value
                /\ out' = out
                /\ pc' = "apply"
           ELSE /\ move' = move
                /\ out' = <<InvalidNotice>>
                /\ pc' = "input"
    /\ raw' = NoLine
    /\ UNCHANGED <<driver, board, moves, applied, last, script, pos, result, hints>>

\* choose_next_move: the rest of the loop body; it returns the move, or
\* writes the notice and goes round the loop again
ChooseNextMove ==
    /\ driver = "play"
    /\ pc = "parse"
    /\ LET parsed == ParseInt(raw)
       IN  IF ~parsed.raised /\ parsed.value \in legal_moves(board)
           THEN /\ move' = parsed.value
                /\ out' = out
                /\ pc' = "apply"
           ELSE /\ move' = move
                /\ out' = <<InvalidNotice>>
                /\ pc' = "input"
    /\ raw' = NoLine
    /\ UNCHANGED <<driver, board, moves, applied, last, script, pos, result, hints>>

\* self.board = self.board.with_move(move); a ValueError leaves play()
PlayApply ==
    /\ driver = "play"
    /\ pc = "apply"
    /\ LET r == with_move(board, move)
       IN  /\ board' = r.board
           /\ applied' = IF r.raised THEN applied ELSE applied + 1
           /\ pc' = IF r.raised THEN "raised" ELSE "count"
    /\ UNCHANGED <<driver, moves, last, script, pos, raw, move, out, result, hints>>

\* a variant that forgets to count the move
PlayCountForgets ==
    /\ driver = "play"
    /\ pc = "count"
    /\ moves' = moves
    /\ out' = << <<"\n">> >>
    /\ move' = NoMove
    /\ pc' = "loop"
    /\ UNCHANGED <<driver, board, applied, last, script, pos, raw, result, hints>>

\* self.moves += 1; print("\n")
PlayCount ==
    /\ driver = "play"
    /\ pc = "count"
    /\ moves' = moves + 1
    /\ out' = << <<"\n">> >>
    /\ move' = NoMove
    /\ pc' = "loop"
    /\ UNCHANGED <<driver, board, applied, last, script, pos, raw, result, hints>>

\* a variant that reports and returns a win of the first player only
PlayFinishFirstPlayerOnly ==
    /\ driver = "play"
    /\ pc = "final"
    /\ \E text \in {render(board, FALSE)} :
         /\ out' = <<text,
                     IF winner(board) = "X" THEN <<"Winner", winner(board)>>
                     ELSE <<"Draw">> >>
         /\ hints' = IF HasHints(text) THEN hints + 1 ELSE hints
    /\ result' = IF winner(board) = "X" THEN winner(board) ELSE None
    /\ pc' = "done"
    /\ UNCHANGED <<driver, board, moves, applied, last, script, pos, raw, move>>

\* print(self.render()); print(the outcome); return self.board.winner()
PlayFinish ==
    /\ driver = "play"
    /\ pc = "final"
    /\ \E text \in {render(board, FALSE)} :
         /\ out' = <<text,
                     IF winner(board) # None THEN <<"Winner", winner(board)>>
                     ELSE <<"Draw">> >>
         /\ hints' = IF HasHints(text) THEN hints + 1 ELSE hints
    /\ result' = winner(board)
    /\ pc' = "done"
    /\ UNCHANGED <<driver, board, moves, applied, last, script, pos, raw, move>>

----------------------------------------------------------------------------
(* Specifications *)

Next ==
    \/ \E m \in MoveArgs : CallWithMove(m)
    \/ CallLegalMoves
    \/ CallWinner
    \/ CallIsActive
    \/ ScriptStep
    \/ PlayLoopTest
    \/ PlayRender
    \/ \E line \in Lines : ReadLine(line)
    \/ ChooseNextMove
    \/ PlayApply
    \/ PlayCount
    \/ PlayFinish

Spec == Init /\ [][Next]_vars

NextQuery ==
    \/ CallLegalMoves
    \/ CallWinner
    \/ CallIsActive

SpecQuery == InitQuery /\ [][NextQuery]_vars

\* TicTacToe().play() alone, as main() runs it
InitPlay ==
    /\ Start
    /\ driver = "play"
    /\ script = <<>>
    /\ pc = "loop"

\* the player types the number of a cell still empty on the board
ReadValidLine ==
    /\ pc = "input"
    /\ \E m \in legal_moves(board) : ReadLine(Str(m))

\* the statements of play() and choose_next_move that wait for nothing
PlayStep ==
    \/ PlayLoopTest
    \/ PlayRender
    \/ ChooseNextMove
    \/ PlayApply
    \/ PlayCount
    \/ PlayFinish

NextPlay ==
    \/ \E line \in Lines : ReadLine(line)
    \/ PlayStep

\* the interpreter runs every statement it reaches, and a player asked for a
\* move again and again types the number of an empty cell in the end
SpecPlay ==
    /\ InitPlay
    /\ [][NextPlay]_vars
    /\ WF_vars(PlayStep)
    /\ SF_vars(ReadValidLine)

----------------------------------------------------------------------------
(* The rules as the specification words them, for the properties below *)

\* the 8 win-lines
WinLines ==
    {{0, 1, 2}, {3, 4, 5}, {6, 7, 8}, {0, 3, 6}, {1, 4, 7}, {2, 5, 8},
     {0, 4, 8}, {2, 4, 6}}

\* the player holding the cells S owns a complete win-line
OwnsLine(S) == \E L \in WinLines : L \subseteq S

Occupied(b) == b.moves_x \cup b.moves_o

Full(b) == Occupied(b) = 0 .. 8

\* a with_move call was made in this step (a call that repeats the previous
\* failed call leaves every variable as it is)
WithMoveCalled == last' # last /\ last'.op = "with_move"

Blanks(n) == [i \in 1 .. n |-> " "]

Zeros(n) == [i \in 1 .. n |-> "0"]

\* the decimal texts of at most MaxLine + 1 characters that denote the
\* integer n: blanks, a sign, leading zeros, the digits, blanks
Spellings(n) ==
    LET signs == IF n < 0 THEN {<<"-">>}
                 ELSE IF n = 0 THEN {<<>>, <<"+">>, <<"-">>}
                 ELSE {<<>>, <<"+">>}
        digits == Str(IF n < 0 THEN 0 - n ELSE n)
        all == {Blanks(a) \o sg \o Zeros(z) \o digits \o Blanks(b) :
                    a \in 0 .. MaxLine, sg \in signs, z \in 0 .. MaxLine,
                    b \in 0 .. MaxLine}
    IN  {t \in all : Len(t) <= MaxLine + 1}

CellSpellings == [n \in 0 .. 8 |-> Spellings(n)]

\* the line names a cell that is still empty on b
SpellsFreeCell(line, b) ==
    \E n \in (0 .. 8) \ Occupied(b) : line \in CellSpellings[n]

----------------------------------------------------------------------------
(* Properties *)

\* C1: with_move fails on a board that has a winner, for every cell, and no
\* move is accepted once winner() is not none or all 9 cells are filled.
C1_NoMoveOnceTerminal ==
    [][(winner(board) # None \/ Full(board)) =>
            /\ board' = board
            /\ (WithMoveCalled => last'.raised)]_vars

\* C2: a with_move call whose argument is outside 0..8 or names an occupied
\* cell raises and leaves moves_x, moves_o and x_turn as they were; applying
\* the same cell twice in a row fails on the second call.
C2_IllegalMoveRejected ==
    /\ [][(WithMoveCalled /\ (last'.arg \notin 0 .. 8 \/ last'.arg \in Occupied(board)))
            => (last'.raised /\ board' = board /\ applied' = applied)]_vars
    /\ [](driver = "script" /\ pos = 2 /\ script[1] = script[2] => last.raised)

C2_Witness ==
    /\ driver = "script"
    /\ script = <<0, 0>>
    /\ pos = 2
    /\ last.raised
    /\ board = Board({0}, {}, FALSE)

\* C3: along the boards produced by accepted with_move calls, winner() is
\* none while no win-line is fully owned, and once it returns a player it
\* returns that same player ever after.
C3_WinnerStable ==
    [][/\ (~OwnsLine(board.moves_x) /\ ~OwnsLine(board.moves_o) => winner(board) = None)
       /\ (~OwnsLine(board'.moves_x) /\ ~OwnsLine(board'.moves_o) => winner(board') = None)
       /\ (winner(board) # None => winner(board') = winner(board))]_vars

\* C4: the moves 0,1,2,3,4,5,6,8,7 fill the board without either player
\* ever owning a win-line, and the outcome is a draw.
C4_FillIsDraw ==
    driver = "script" /\ script = FillScenario =>
        /\ ~OwnsLine(board.moves_x) /\ ~OwnsLine(board.moves_o)
        /\ (pos = Len(script) => Full(board) /\ winner(board) = None /\ ~is_active(board))

\* C4 as amended: the first seven of the moves 0,1,2,3,4,5,6,8,7 are
\* accepted, winner() is none after each of the first six, the seventh (X at
\* 6) gives X the win-line {2,4,6}, and from there to the end of the list
\* winner() is X and is_active() is false: X wins, it is no draw.
C4_FillIsWinForX ==
    driver = "script" /\ script = FillScenario =>
        /\ (pos <= 7 => applied = pos)
        /\ (pos < 7 => winner(board) = None /\ is_active(board))
        /\ (pos >= 7 => /\ {2, 4, 6} \subseteq board.moves_x
                        /\ winner(board) = "X"
                        /\ ~is_active(board))

C4_Witness ==
    /\ driver = "script"
    /\ script = FillScenario
    /\ pos = 7
    /\ board = Board({0, 2, 4, 6}, {1, 3, 5}, FALSE)
    /\ winner(board) = "X"

\* C5: moves_x and moves_o are disjoint sets of indices in 0..8 whose sizes
\* add up to the number of moves applied, at most 9; in play() self.moves
\* equals that number after every iteration.
C5_MoveSetsCountMoves ==
    /\ board.moves_x \cap board.moves_o = {}
    /\ Occupied(board) \subseteq 0 .. 8
    /\ Cardinality(board.moves_x) + Cardinality(board.moves_o) = applied
    /\ applied <= 9
    /\ (driver = "play" =>
            moves = IF pc = "count" THEN applied - 1 ELSE applied)

C5_Witness ==
    /\ driver = "play"
    /\ pc = "loop"
    /\ moves = 9
    /\ Cardinality(board.moves_x) = 5
    /\ Cardinality(board.moves_o) = 4

\* C6: legal_moves() is {0..8} minus the union of the two move sets, and a
\* call of it leaves the board as it was.
C6_LegalMovesComplement ==
    /\ [](legal_moves(board) = (0 .. 8) \ (board.moves_x \cup board.moves_o))
    /\ [][(last' # last /\ last'.op = "legal_moves") =>
            /\ last'.ret = (0 .. 8) \ (board.moves_x \cup board.moves_o)
            /\ board' = board]_vars

C6_Witness ==
    /\ last.op = "legal_moves"
    /\ last.ret = {5}
    /\ 5 \notin Occupied(board)
    /\ Cardinality(Occupied(board)) = 8

\* C7: WIN_CONDITIONS is exactly the 8 win-lines, and for every pair of
\* disjoint move sets winner() returns a player owning one of them, none iff
\* neither player owns one.
C7_WinnerByWinLines ==
    /\ Len(WIN_CONDITIONS) = 8
    /\ {{w[i] : i \in 1 .. Len(w)} : w \in {WIN_CONDITIONS[k] : k \in 1 .. Len(WIN_CONDITIONS)}}
            = WinLines
    /\ winner(board) \in {"X", "O", None}
    /\ (winner(board) = "X" => OwnsLine(board.moves_x))
    /\ (winner(board) = "O" => OwnsLine(board.moves_o))
    /\ (winner(board) = None <=> ~OwnsLine(board.moves_x) /\ ~OwnsLine(board.moves_o))
    /\ (last.op = "winner" => last.ret = winner(board))

C7_Witness ==
    /\ last.op = "winner"
    /\ last.ret = "O"
    /\ {2, 4, 6} \subseteq board.moves_o
    /\ ~OwnsLine(board.moves_x)

\* C8: a board with all 9 cells occupied on which neither player owns a
\* win-line is not active and has no winner.
C8_FullBoardIsDraw ==
    (Full(board) /\ ~OwnsLine(board.moves_x) /\ ~OwnsLine(board.moves_o)) =>
        /\ ~is_active(board)
        /\ winner(board) = None
        /\ (last.op = "is_active" => last.ret = FALSE)
        /\ (last.op = "winner" => last.ret = None)

C8_Witness ==
    /\ Full(board)
    /\ ~OwnsLine(board.moves_x)
    /\ ~OwnsLine(board.moves_o)
    /\ last.op = "is_active"
    /\ last.ret = FALSE

\* C9: the moves 4,0,1,3,7 are accepted one by one, winner() is none after
\* each of the first four, and after the fifth winner() is X, who owns the
\* column {1,4,7}, and is_active() is false.
C9_ColumnWin ==
    driver = "script" /\ script = ColumnScenario =>
        /\ applied = pos
        /\ (pos < 5 => winner(board) = None /\ is_active(board))
        /\ (pos = 5 => /\ board = Board({1, 4, 7}, {0, 3}, FALSE)
                       /\ winner(board) = "X"
                       /\ ~is_active(board))

C9_Witness ==
    /\ driver = "script"
    /\ script = ColumnScenario
    /\ pos = 5
    /\ applied = 5
    /\ winner(board) = "X"

\* C10: in choose_next_move a line that is no integer, or an integer
\* outside 0..8, or an integer naming an occupied cell, gets the notice,
\* leaves the board and the counter alone and has the same player asked
\* again; no error leaves play(); only a member of legal_moves() is returned.
C10_InvalidLineReprompts ==
    /\ [][pc = "parse" =>
            IF SpellsFreeCell(raw, board)
            THEN /\ pc' = "apply"
                 /\ move' \in (0 .. 8) \ Occupied(board)
                 /\ raw \in CellSpellings[move']
                 /\ board' = board /\ moves' = moves
            ELSE /\ pc' = "input"
                 /\ out' = <<InvalidNotice>>
                 /\ board' = board /\ moves' = moves /\ move' = move]_vars
    /\ [](pc = "apply" => move \in legal_moves(board))

C10_Witness ==
    /\ driver = "play"
    /\ pc = "input"
    /\ out = <<InvalidNotice>>
    /\ moves = 3
    /\ ~board.x_turn

\* C11: every with_move call of play() succeeds: the move applied is a
\* member of legal_moves() of the board it is applied to, that board has no
\* winner, and no ValueError leaves play().
C11_PlayNeverRaises ==
    driver = "play" =>
        /\ pc # "raised"
        /\ (pc = "apply" =>
                /\ move \in (0 .. 8) \ Occupied(board)
                /\ move \in legal_moves(board)
                /\ ~OwnsLine(board.moves_x) /\ ~OwnsLine(board.moves_o)
                /\ is_active(board))
        /\ applied >= moves

C11_Witness ==
    /\ driver = "play"
    /\ pc = "count"
    /\ applied = 9
    /\ moves = 8

\* the character of a rendered board that shows cell i: rows of 5
\* characters, 7 characters of separator between two rows
CellAt(text, i) == text[(i \div 3) * 12 + (i % 3) * 2 + 1]

\* text shows every cell of b as its mark, an empty cell as a blank
ShowsPlain(text, b) ==
    \A i \in 0 .. 8 :
        CellAt(text, i) = IF i \in b.moves_x THEN "X"
                          ELSE IF i \in b.moves_o THEN "O" ELSE " "

\* C12: play() leaves its loop only when the board is not active, then
\* writes the final board without index hints and exactly one outcome:
\* 'Winner: p' with return value p iff winner() is p, 'Draw' with return
\* value none iff all 9 cells are occupied and no player owns a win-line;
\* no move is applied after the outcome.
C12_OutcomeReported ==
    /\ [](driver = "play" /\ pc \in {"final", "done"} =>
            /\ (OwnsLine(board.moves_x) \/ OwnsLine(board.moves_o) \/ Full(board))
            /\ ~is_active(board)
            /\ applied = moves)
    /\ [](driver = "play" /\ pc = "done" =>
            /\ Len(out) = 2
            /\ ~HasHints(out[1])
            /\ ShowsPlain(out[1], board)
            /\ out[2] \in {<<"Winner", "X">>, <<"Winner", "O">>, <<"Draw">>}
            /\ (out[2] = <<"Winner", "X">> <=> winner(board) = "X")
            /\ (out[2] = <<"Winner", "O">> <=> winner(board) = "O")
            /\ (out[2] = <<"Winner", "X">> <=> OwnsLine(board.moves_x))
            /\ (out[2] = <<"Winner", "O">> <=> OwnsLine(board.moves_o))
            /\ (out[2] = <<"Draw">> <=>
                    Full(board) /\ ~OwnsLine(board.moves_x) /\ ~OwnsLine(board.moves_o))
            /\ result = (IF out[2] = <<"Draw">> THEN None ELSE out[2][2]))
    /\ [][(pc = "final" \/ pc = "done") =>
            (board' = board /\ applied' = applied /\ moves' = moves)]_vars
    /\ [][(pc' = "final" /\ pc # "final") => (pc = "loop" /\ ~is_active(board))]_vars

C12_Witness ==
    /\ driver = "play"
    /\ pc = "done"
    /\ out[2] = <<"Winner", "O">>
    /\ result = "O"
    /\ ~Full(board)

\* C13: for every pair of disjoint move sets is_active() is true iff
\* winner() is none and legal_moves() is not empty; a board with a winner is
\* not active even when empty cells remain.
C13_ActiveIffOpen ==
    /\ (is_active(board) <=>
            /\ ~OwnsLine(board.moves_x)
            /\ ~OwnsLine(board.moves_o)
            /\ (0 .. 8) \ Occupied(board) # {})
    /\ (last.op = "is_active" =>
            (last.ret <=> (winner(board) = None /\ legal_moves(board) # {})))
    /\ (OwnsLine(board.moves_x) \/ OwnsLine(board.moves_o) => ~is_active(board))

C13_Witness ==
    /\ last.op = "is_active"
    /\ last.ret = FALSE
    /\ board.moves_x = {0, 1, 2}
    /\ board.moves_o = {3, 4}

\* C14: an accepted with_move(cell) adds cell to the set of the player whose
\* turn it was, leaves the other set and every occupied cell as they were,
\* occupies exactly one more cell and flips the turn.
C14_AcceptedMoveEffect ==
    [][applied' # applied =>
        /\ applied' = applied + 1
        /\ \E cell \in (0 .. 8) \ Occupied(board) :
            /\ (driver # "play" => cell = last'.arg /\ ~last'.raised)
            /\ (driver = "play" => cell = move)
            /\ (board.x_turn =>
                    board'.moves_x = board.moves_x \cup {cell} /\ board'.moves_o = board.moves_o)
            /\ (~board.x_turn =>
                    board'.moves_o = board.moves_o \cup {cell} /\ board'.moves_x = board.moves_x)
        /\ board.moves_x \subseteq board'.moves_x
        /\ board.moves_o \subseteq board'.moves_o
        /\ Cardinality(Occupied(board')) = Cardinality(Occupied(board)) + 1
        /\ board'.x_turn = ~board.x_turn]_vars

C14_Witness ==
    /\ driver = "calls"
    /\ last = [op |-> "with_move", arg |-> 1, raised |-> FALSE, ret |-> None]
    /\ board = Board({0}, {1}, TRUE)
    /\ applied = 2

\* C17: on every board reached by accepted with_move calls |moves_x| -
\* |moves_o| is 0 or 1 and x_turn holds iff the two sizes are equal.
C17_Alternation ==
    /\ Cardinality(board.moves_x) - Cardinality(board.moves_o) \in {0, 1}
    /\ (board.x_turn <=> Cardinality(board.moves_x) = Cardinality(board.moves_o))
    /\ (current_player(board) = "X" <=> Cardinality(board.moves_x) = Cardinality(board.moves_o))
    /\ (current_player(board) = "O" <=> Cardinality(board.moves_x) = Cardinality(board.moves_o) + 1)

C17_Witness ==
    /\ driver = "calls"
    /\ Cardinality(board.moves_x) = 5
    /\ Cardinality(board.moves_o) = 4
    /\ ~board.x_turn
    /\ OwnsLine(board.moves_x)
    /\ OwnsLine(board.moves_o)

\* C18: in every state of play() at most one player owns a win-line, and
\* when winner() is not none it is the player who moved last, not
\* current_player.
C18_WinnerMovedLast ==
    driver = "play" =>
        /\ ~(OwnsLine(board.moves_x) /\ OwnsLine(board.moves_o))
        /\ (winner(board) # None =>
                /\ winner(board) # current_player(board)
                /\ winner(board) = (IF board.x_turn THEN "O" ELSE "X")
                /\ OwnsLine(IF winner(board) = "X" THEN board.moves_x ELSE board.moves_o))

C18_Witness ==
    /\ driver = "play"
    /\ pc = "done"
    /\ result = "O"
    /\ board.x_turn
    /\ moves = 8

\* C19: when play() finishes self.moves is between 5 and 9: X is the winner
\* only after 5, 7 or 9 moves, O only after 6 or 8, a draw only after 9.
C19_FinishCounts ==
    driver = "play" /\ pc \in {"final", "done"} =>
        /\ moves \in 5 .. 9
        /\ (winner(board) = "X" => moves \in {5, 7, 9})
        /\ (winner(board) = "O" => moves \in {6, 8})
        /\ (winner(board) = None => moves = 9)
        /\ (pc = "done" =>
                /\ (result = "X" => moves \in {5, 7, 9})
                /\ (result = "O" => moves \in {6, 8})
                /\ (result = None => moves = 9))

C19_Witness ==
    /\ driver = "play"
    /\ pc = "done"
    /\ result = "X"
    /\ moves = 9

\* text shows every empty cell of b as its index
ShowsHinted(text, b) ==
    \A i \in 0 .. 8 :
        CellAt(text, i) = IF i \in b.moves_x THEN "X"
                          ELSE IF i \in b.moves_o THEN "O" ELSE Digits[i + 1]

\* C16: play() writes the board with index hints exactly once, on the first
\* turn while the board is empty; every later board, the final one included,
\* shows empty cells as blanks; invalid lines on the first turn cause no
\* second hinted board and do not take the hints away.
C16_HintsOnce ==
    /\ [](driver = "play" => hints = (IF out = <<>> THEN 0 ELSE 1))
    /\ [][pc = "render" =>
            /\ (moves = 0 => board = EmptyBoard /\ ShowsHinted(out'[1], board)
                             /\ hints = 0 /\ hints' = 1)
            /\ (moves > 0 => ShowsPlain(out'[1], board) /\ ~HasHints(out'[1])
                             /\ hints' = hints)]_vars
    /\ [][pc = "final" => (ShowsPlain(out'[1], board) /\ ~HasHints(out'[1])
                            /\ hints' = hints)]_vars
    /\ [][(pc = "input" \/ pc = "parse") => (hints' = hints /\ pc' # "render")]_vars

C16_Witness ==
    /\ driver = "play"
    /\ pc = "input"
    /\ out = <<InvalidNotice>>
    /\ moves = 0
    /\ hints = 1

\* C15: play() started on the empty board reaches its end, a winner or a
\* draw, provided each move request eventually receives a valid line; each
\* run of the loop body leaves one empty cell less, so the body runs at most
\* 9 times.
C15_PlayTerminates ==
    /\ <>(pc = "done")
    /\ [](pc = "done" => result = winner(board) /\ ~is_active(board))
    /\ [](pc = "loop" => Cardinality((0 .. 8) \ Occupied(board)) = 9 - moves)
    /\ [](moves <= 9)
    /\ [][moves' # moves => (moves' = moves + 1 /\ pc' = "loop")]_vars
    /\ [][(pc = "loop" /\ pc' = "render") => moves <= 8]_vars

C15_Witness ==
    /\ driver = "play"
    /\ pc = "done"
    /\ moves = 9
    /\ result = None

====
